---- MODULE Spec2Model ----
(***************************************************************************)
(* Envelope assembly and correlation propagation of the Application        *)
(* Insights Node.js SDK: Library/EnvelopeFactory.ts and Library/Util.ts.   *)
(*                                                                         *)
(* A JavaScript value is a record tagged by its type (field t); a map is a *)
(* function from its keys; a call that throws ends with status "raised".   *)
(***************************************************************************)
EXTENDS Integers, Sequences, FiniteSets, TLC

VARIABLES
    stack,          \* parseStack: the raw stack given to the converter
    parsedStack,    \* parseStack: its outcome
    obj,            \* validateStringMap: the bag given to the sanitizer
    sanitized,      \* validateStringMap: its outcome
    tagArgs,        \* getTags: context, tagOverrides and the ambient correlation context
    newTags,        \* getTags: its outcome
    call,           \* createEnvelope: the arguments, the ambient correlation context, the clock
    heap,           \* createEnvelope: what the argument objects hold now
    envResult,      \* createEnvelope: its outcome
    reqHeader,      \* the request-context header the request holds
    correlationId,  \* client.config.correlationId
    hdrCall,        \* safeIncludeCorrelationHeader: the calls made so far
    utilCall,       \* msToTimeSpan, canIncludeCorrelationHeader, makeRequest: the call
    utilResult,     \* its outcome
    sdk,            \* applicationinsights.ts: the module's variables
    clients,        \* the telemetry clients created so far, by identity
    lastCall,       \* the last call made on the module and what it did
    history         \* the setup calls since the last dispose call

stackVars == <<stack, parsedStack>>
sanVars == <<obj, sanitized>>
tagVars == <<tagArgs, newTags>>
envVars == <<call, heap, envResult>>
hdrVars == <<reqHeader, correlationId, hdrCall>>
utilVars == <<utilCall, utilResult>>
sdkVars == <<sdk, clients, lastCall, history>>
vars ==
    <<stack, parsedStack, obj, sanitized, tagArgs, newTags, call, heap, envResult,
      reqHeader, correlationId, hdrCall, utilCall, utilResult,
      sdk, clients, lastCall, history>>

Pending == [status |-> "pending"]
Idle == [status |-> "idle"]

IdleStack == stack = Idle /\ parsedStack = Idle
IdleSan == obj = Idle /\ sanitized = Idle
IdleTags == tagArgs = Idle /\ newTags = Idle
IdleEnv == call = Idle /\ heap = Idle /\ envResult = Idle
IdleHdr == reqHeader = Idle /\ correlationId = "" /\ hdrCall = Idle
IdleUtil == utilCall = Idle /\ utilResult = Idle
IdleSdk == sdk = Idle /\ clients = <<>> /\ lastCall = Idle /\ history = Idle

(***************************************************************************)
(* Bounds of the model.                                                    *)
(***************************************************************************)
MaxLines == 6
MaxComponents == 3
MaxApplications == 3
MaxPatterns == 2
MaxClients == 2

(***************************************************************************)
(* EnvelopeFactory.parseStack and _StackFrame.                             *)
(*                                                                         *)
(* A line of the raw stack is described by what the frame regex reads from *)
(* it: whether it matches, the length of the method text (group 2) and of  *)
(* the file name (group 4), and the line and column numbers (groups 5, 6). *)
(* A frame line is "at <method> (<file>:<line>:<col>)" once trimmed.       *)
(***************************************************************************)
baseSize == 58
exceptionParsedStackThreshold == 32 * 1024

TextLine == [kind |-> "text", m |-> 0, f |-> 0, line |-> 0, col |-> 0]
UndefinedLine == [kind |-> "undefined", m |-> 0, f |-> 0, line |-> 0, col |-> 0]
FrameLine(m, f, l, c) == [kind |-> "frame", m |-> m, f |-> f, line |-> l, col |-> c]

RECURSIVE Digits(_)
Digits(n) == IF n < 10 THEN 1 ELSE 1 + Digits(n \div 10)

RegexTest(ln) == ln.kind = "frame"

MethodLength(ln) == IF ln.m = 0 THEN 11 ELSE ln.m
AssemblyLength(ln) ==
    2 + (IF ln.m > 0 THEN 1 + ln.m ELSE 0) + 2 + ln.f + 1 + Digits(ln.line)
      + 1 + Digits(ln.col) + 1

StackFrame(ln, level) ==
    [level |-> level,
     line |-> ln.line,
     sizeInBytes |-> MethodLength(ln) + ln.f + AssemblyLength(ln)
                       + baseSize + Digits(level) + Digits(ln.line)]

FrameAt(frames, i) == IF i < Len(frames) THEN frames[i + 1] ELSE UndefinedLine

RECURSIVE ParseFrames(_, _, _, _, _)
ParseFrames(frames, i, level, parsed, total) ==
    IF i <= Len(frames)
    THEN IF RegexTest(FrameAt(frames, i))
         THEN LET parsedFrame == StackFrame(FrameAt(frames, i), level)
              IN ParseFrames(frames, i + 1, level + 1, Append(parsed, parsedFrame),
                             total + parsedFrame.sizeInBytes)
         ELSE ParseFrames(frames, i + 1, level, parsed, total)
    ELSE [parsedStack |-> parsed, totalSizeInBytes |-> total]

Splice(arr, start, howMany) ==
    SubSeq(arr, 1, start) \o SubSeq(arr, start + howMany + 1, Len(arr))

RECURSIVE TruncateLoop(_, _, _, _, _, _)
TruncateLoop(ps, left, right, size, acceptedLeft, acceptedRight) ==
    IF left < right
    THEN LET size2 == size + ps[left + 1].sizeInBytes + ps[right + 1].sizeInBytes
         IN IF size2 > exceptionParsedStackThreshold
            THEN Splice(ps, acceptedLeft, acceptedRight - acceptedLeft + 1)
            ELSE TruncateLoop(ps, left + 1, right - 1, size2, left, right)
    ELSE ps

parseStack(stk) ==
    IF stk.isString
    THEN LET p == ParseFrames(stk.lines, 0, 0, <<>>, 0)
         IN [status |-> "returned", isArray |-> TRUE,
             frames |-> IF p.totalSizeInBytes > exceptionParsedStackThreshold
                        THEN TruncateLoop(p.parsedStack, 0, Len(p.parsedStack) - 1,
                                          0, 0, Len(p.parsedStack) - 1)
                        ELSE p.parsedStack]
    ELSE [status |-> "returned", isArray |-> FALSE, frames |-> <<>>]

(***************************************************************************)
(* JavaScript values, as far as the sanitizer and the envelope factory     *)
(* tell them apart.                                                        *)
(***************************************************************************)
Str(s) == [t |-> "string", s |-> s]
Num(n) == [t |-> "number", n |-> n]
Bool(b) == [t |-> "boolean", b |-> b]
Null == [t |-> "null"]
Undefined == [t |-> "undefined"]
Func == [t |-> "function"]
Arr(items) == [t |-> "array", ctor |-> "Array", items |-> items]
Err(message, code, id) ==
    [t |-> "error", ctor |-> "Error", message |-> message, code |-> code, id |-> id]
\* An object with own fields (a sequence of <<key, value>>), no toJSON method.
PlainObject(fields) ==
    [t |-> "object", ctor |-> "Object", cyclic |-> FALSE, hasToJSON |-> FALSE,
     fields |-> fields]
\* An object that refers to itself.
CyclicObject ==
    [t |-> "object", ctor |-> "Object", cyclic |-> TRUE, hasToJSON |-> FALSE,
     fields |-> <<>>]
\* An object whose toJSON method returns ret (a Date returns its ISO text).
ToJSONObject(ctor, ret) ==
    [t |-> "object", ctor |-> ctor, cyclic |-> FALSE, hasToJSON |-> TRUE,
     toJSON |-> ret, fields |-> <<>>]
\* A keyed bag (a property or tag map): a plain object read by key.
Bag(m) == [t |-> "bag", ctor |-> "Object", map |-> m]

TypeOf(v) ==
    CASE v.t \in {"string", "number", "boolean", "undefined", "function"} -> v.t
      [] OTHER -> "object"

\* ToBoolean: false for undefined, null, "", 0 and false.
Truthy(v) ==
    CASE v.t = "string" -> v.s # ""
      [] v.t = "number" -> v.n # 0
      [] v.t = "boolean" -> v.b
      [] v.t \in {"null", "undefined"} -> FALSE
      [] OTHER -> TRUE

\* a || b
Or(a, b) == IF Truthy(a) THEN a ELSE b

DigitChar(d) == SubSeq("0123456789", d + 1, d + 1)

RECURSIVE NatToString(_)
NatToString(n) ==
    IF n < 10 THEN DigitChar(n) ELSE NatToString(n \div 10) \o DigitChar(n % 10)

\* Number.prototype.toString, Boolean.prototype.toString, String.prototype.toString
toString(v) ==
    CASE v.t = "string" -> v.s
      [] v.t = "number" -> NatToString(v.n)
      [] v.t = "boolean" -> IF v.b THEN "true" ELSE "false"

\* The index of the first ch in s from position i on, 0 when there is none.
RECURSIVE IndexOf(_, _, _)
IndexOf(s, ch, i) ==
    IF i > Len(s) THEN 0
    ELSE IF SubSeq(s, i, i) = ch THEN i
    ELSE IndexOf(s, ch, i + 1)

RECURSIVE Repeat(_, _)
Repeat(s, n) ==
    IF n = 0 THEN ""
    ELSE LET h == Repeat(s, n \div 2)
         IN IF n % 2 = 0 THEN h \o h ELSE h \o h \o s

(***************************************************************************)
(* JSON.stringify, on the values above: the text, or undefined (defined =  *)
(* FALSE), or a thrown TypeError (ok = FALSE) for a cyclic structure.      *)
(***************************************************************************)
CircularMessage == "Converting circular structure to JSON"

JsonText(s) == [ok |-> TRUE, defined |-> TRUE, text |-> s, message |-> ""]
JsonUndefined == [ok |-> TRUE, defined |-> FALSE, text |-> "", message |-> ""]
JsonThrow(msg) == [ok |-> FALSE, defined |-> FALSE, text |-> "", message |-> msg]

Quote(s) == "\"" \o s \o "\""

RECURSIVE JSONStringify(_)
RECURSIVE StringifyItems(_, _)
RECURSIVE StringifyFields(_, _)

\* The elements of an array from index i on: undefined and functions become null.
StringifyItems(items, i) ==
    IF i > Len(items) THEN JsonText("")
    ELSE LET one == JSONStringify(items[i])
             rest == StringifyItems(items, i + 1)
         IN IF ~one.ok THEN one
            ELSE IF ~rest.ok THEN rest
            ELSE JsonText((IF one.defined THEN one.text ELSE "null")
                          \o (IF i < Len(items) THEN "," ELSE "") \o rest.text)

\* The members of an object from field i on: undefined and functions are left out.
StringifyFields(fields, i) ==
    IF i > Len(fields) THEN JsonText("")
    ELSE LET one == JSONStringify(fields[i][2])
             rest == StringifyFields(fields, i + 1)
         IN IF ~one.ok THEN one
            ELSE IF ~rest.ok THEN rest
            ELSE IF ~one.defined THEN rest
            ELSE JsonText(Quote(fields[i][1]) \o ":" \o one.text
                          \o (IF rest.text # "" THEN "," ELSE "") \o rest.text)

JSONStringify(v) ==
    CASE v.t = "string" -> JsonText(Quote(v.s))
      [] v.t = "number" -> JsonText(NatToString(v.n))
      [] v.t = "boolean" -> JsonText(IF v.b THEN "true" ELSE "false")
      [] v.t = "null" -> JsonText("null")
      [] v.t \in {"undefined", "function"} -> JsonUndefined
      [] v.t = "array" ->
            LET r == StringifyItems(v.items, 1)
            IN IF r.ok THEN JsonText("[" \o r.text \o "]") ELSE r
      [] v.t = "error" ->
            LET r == StringifyFields(<<<<"code", v.code>>, <<"id", v.id>>>>, 1)
            IN IF r.ok THEN JsonText("{" \o r.text \o "}") ELSE r
      [] v.t = "object" ->
            IF v.hasToJSON THEN JSONStringify(v.toJSON)
            ELSE IF v.cyclic THEN JsonThrow(CircularMessage)
            ELSE LET r == StringifyFields(v.fields, 1)
                 IN IF r.ok THEN JsonText("{" \o r.text \o "}") ELSE r
      [] v.t = "bag" ->
            JsonText("{}")

(***************************************************************************)
(* Util.validateStringMap and its helpers.                                 *)
(***************************************************************************)
MAX_PROPERTY_LENGTH == 8192

isArray(v) == v.t = "array"
isError(v) == v.t = "error"
isPrimitive(v) == TypeOf(v) \in {"string", "number", "boolean"}

extractError(err) ==
    PlainObject(<<<<"message", Str(err.message)>>,
                  <<"code", Or(Or(err.code, err.id), Str(""))>>>>)

extractObject(origProperty) ==
    IF isError(origProperty) THEN extractError(origProperty)
    ELSE IF origProperty.t = "object" /\ origProperty.hasToJSON THEN origProperty.toJSON
    ELSE origProperty

\* Mutant of Substring0: the text is not cut.
Substring0_NoCut(s, n) == s

\* String.prototype.substring(0, n)
Substring0(s, n) == SubSeq(s, 1, IF Len(s) < n THEN Len(s) ELSE n)

\* map[field] = property.substring(0, MAX): a property that is no string has
\* no substring method, and the call throws.
StoreProperty(property) ==
    IF property.t = "string"
    THEN [kind |-> "set", value |-> Str(Substring0(property.s, MAX_PROPERTY_LENGTH))]
    ELSE [kind |-> "throw", value |-> Undefined]

\* One turn of the loop over the bag's fields.
SanitizeProperty(origProperty) ==
    IF isPrimitive(origProperty) THEN StoreProperty(Str(toString(origProperty)))
    ELSE IF origProperty.t = "null" \/ TypeOf(origProperty) = "undefined"
    THEN StoreProperty(Str(""))
    ELSE IF TypeOf(origProperty) = "function" THEN [kind |-> "drop", value |-> Undefined]
    ELSE LET stringTarget == IF isArray(origProperty) THEN origProperty
                             ELSE extractObject(origProperty)
             json == JSONStringify(stringTarget)
         IN IF isPrimitive(stringTarget) THEN StoreProperty(stringTarget)
            ELSE IF ~json.ok
            THEN StoreProperty(Str(origProperty.ctor \o " (Error: " \o json.message \o ")"))
            ELSE IF json.defined THEN StoreProperty(Str(json.text))
            ELSE StoreProperty(Undefined)

validateStringMap(o) ==
    IF TypeOf(o) # "object" THEN [status |-> "returned", isMap |-> FALSE, map |-> <<>>]
    ELSE LET fields == IF o.t = "bag" THEN o.map ELSE <<>>
             out == [k \in DOMAIN fields |-> SanitizeProperty(fields[k])]
         IN IF \E k \in DOMAIN out : out[k].kind = "throw"
            THEN [status |-> "raised", isMap |-> FALSE, map |-> <<>>]
            ELSE [status |-> "returned", isMap |-> TRUE,
                  map |-> [k \in {f \in DOMAIN out : out[f].kind = "set"} |->
                              out[k].value]]

(***************************************************************************)
(* EnvelopeFactory.getTags.                                                *)
(***************************************************************************)
\* Context.keys (Declarations/Contracts ContextTagKeys)
ContextTagKeys ==
    [operationId |-> "ai.operation.id",
     operationName |-> "ai.operation.name",
     operationParentId |-> "ai.operation.parentId"]

Context(tags) == [t |-> "context", tags |-> tags, keys |-> ContextTagKeys]
CorrelationContext(id, name, parentId) ==
    [t |-> "correlationContext",
     operation |-> [id |-> id, name |-> name, parentId |-> parentId]]

EmptyMap == <<>>

\* m[k]: undefined when the map has no such key
Get(m, k) == IF k \in DOMAIN m THEN m[k] ELSE Undefined

\* m[k] = v
Put(m, k, v) == [x \in DOMAIN m \cup {k} |-> IF x = k THEN v ELSE m[x]]

\* for (var key in from) { to[key] = from[key]; }
CopyInto(to, from) ==
    [x \in DOMAIN to \cup DOMAIN from |-> IF x \in DOMAIN from THEN from[x] ELSE to[x]]

\* Mutant of FillTag: the correlation context's value replaces what is there.
FillTag_Overwrite(m, key, value) == Put(m, key, value)

\* newTags[key] = newTags[key] || value
FillTag(m, key, value) == Put(m, key, Or(Get(m, key), value))

getTags(context, tagOverrides, correlationContext) ==
    LET fromContext == IF Truthy(context) /\ Truthy(context.tags)
                       THEN CopyInto(EmptyMap, context.tags.map) ELSE EmptyMap
        overridden == IF Truthy(tagOverrides)
                      THEN CopyInto(fromContext, tagOverrides.map) ELSE fromContext
    IN IF Truthy(correlationContext)
       THEN IF ~Truthy(context)
            THEN [status |-> "raised", tags |-> EmptyMap]
            ELSE LET op == correlationContext.operation
                     t1 == FillTag(overridden, context.keys.operationId, op.id)
                     t2 == FillTag(t1, context.keys.operationName, op.name)
                     t3 == FillTag(t2, context.keys.operationParentId, op.parentId)
                 IN [status |-> "returned", tags |-> t3]
       ELSE [status |-> "returned", tags |-> overridden]

(***************************************************************************)
(* EnvelopeFactory.createEnvelope and the six converters.                  *)
(***************************************************************************)
\* Contracts.DataTypes
DataTypes ==
    [MESSAGE |-> "MessageData",
     REMOTE_DEPENDENCY |-> "RemoteDependencyData",
     EVENT |-> "EventData",
     EXCEPTION |-> "ExceptionData",
     REQUEST |-> "RequestData",
     METRIC |-> "MetricData"]

\* Contracts.SeverityLevel
SeverityLevel == [Information |-> Num(1), Error |-> Num(3)]

\* Contracts.domainSupportsProperties: every body the converters build has properties
domainSupportsProperties(domain) ==
    domain.kind \in {"MessageData", "RemoteDependencyData", "EventData",
                     "ExceptionData", "RequestData", "MetricData"}

\* The number NaN
NaN == [t |-> "number", nan |-> TRUE]

\* isNaN of a number field that may be unset
isNaN(v) == v.t = "undefined" \/ v = NaN

(***************************************************************************)
(* Util.msToTimeSpan.  A number of milliseconds is n + frac / 10000, with  *)
(* n a whole number of either sign and frac a count of ticks of 1/10000    *)
(* ms, which toFixed(7) of the seconds renders without rounding.           *)
(***************************************************************************)
TicksPerMs == 10000

Ms(n, frac) == [t |-> "number", n |-> n, frac |-> frac]

FracOf(v) == IF "frac" \in DOMAIN v THEN v.frac ELSE 0

\* The decimal digits of n, zero-padded on the left to width digits
PadLeft(n, width) ==
    LET text == NatToString(n)
    IN IF Len(text) < width THEN Repeat("0", width - Len(text)) \o text ELSE text

\* Number.prototype.toFixed(7), of a count of seconds given in ticks
toFixed7(secTicks) ==
    NatToString(secTicks \div (1000 * TicksPerMs)) \o "."
        \o PadLeft(secTicks % (1000 * TicksPerMs), 7)

\* Mutant of ReplaceTrailingZeros: every trailing zero is removed.
RECURSIVE ReplaceTrailingZeros_All(_, _)
ReplaceTrailingZeros_All(text, most) ==
    IF Len(text) > 0 /\ SubSeq(text, Len(text), Len(text)) = "0"
    THEN ReplaceTrailingZeros_All(SubSeq(text, 1, Len(text) - 1), most)
    ELSE text

\* text.replace(/0{0,most}$/, ""): the leftmost match is the longest run of at
\* most `most` zeros that ends the text.
RECURSIVE ReplaceTrailingZeros(_, _)
ReplaceTrailingZeros(text, most) ==
    IF most > 0 /\ Len(text) > 0 /\ SubSeq(text, Len(text), Len(text)) = "0"
    THEN ReplaceTrailingZeros(SubSeq(text, 1, Len(text) - 1), most - 1)
    ELSE text

msToTimeSpan(totalms) ==
    LET clamped == isNaN(totalms) \/ totalms.n < 0
        ms == IF clamped THEN 0 ELSE totalms.n
        frac == IF clamped THEN 0 ELSE FracOf(totalms)
        sec0 == ReplaceTrailingZeros(toFixed7((ms % (60 * 1000)) * TicksPerMs + frac), 4)
        min0 == NatToString((ms \div (1000 * 60)) % 60)
        hour0 == NatToString((ms \div (1000 * 60 * 60)) % 24)
        days == ms \div (1000 * 60 * 60 * 24)
        sec == IF IndexOf(sec0, ".", 1) - 1 < 2 THEN "0" \o sec0 ELSE sec0
        min == IF Len(min0) < 2 THEN "0" \o min0 ELSE min0
        hour == IF Len(hour0) < 2 THEN "0" \o hour0 ELSE hour0
        daysText == IF days > 0 THEN NatToString(days) \o "." ELSE ""
    IN daysText \o hour \o ":" \o min \o ":" \o sec

createTraceData(telemetry) ==
    [baseType |-> DataTypes.MESSAGE,
     baseData |-> [kind |-> "MessageData",
                   message |-> telemetry.message,
                   properties |-> telemetry.properties,
                   severityLevel |-> IF ~isNaN(telemetry.severity)
                                     THEN telemetry.severity
                                     ELSE SeverityLevel.Information]]

createDependencyData(telemetry) ==
    [baseType |-> DataTypes.REMOTE_DEPENDENCY,
     baseData |-> [kind |-> "RemoteDependencyData",
                   name |-> telemetry.name,
                   duration |-> msToTimeSpan(telemetry.duration),
                   success |-> telemetry.success,
                   properties |-> telemetry.properties]]

createEventData(telemetry) ==
    [baseType |-> DataTypes.EVENT,
     baseData |-> [kind |-> "EventData",
                   name |-> telemetry.name,
                   properties |-> telemetry.properties]]

createExceptionData(telemetry) ==
    LET parsed == parseStack(telemetry.exception.stack)
    IN [baseType |-> DataTypes.EXCEPTION,
        baseData |-> [kind |-> "ExceptionData",
                      properties |-> telemetry.properties,
                      severityLevel |-> SeverityLevel.Error,
                      exceptions |->
                        <<[message |-> telemetry.exception.message,
                           typeName |-> telemetry.exception.name,
                           parsedStack |-> parsed,
                           hasFullStack |-> parsed.isArray /\ Len(parsed.frames) > 0]>>]]

createRequestData(telemetry) ==
    [baseType |-> DataTypes.REQUEST,
     baseData |-> [kind |-> "RequestData",
                   name |-> telemetry.name,
                   duration |-> msToTimeSpan(telemetry.duration),
                   success |-> telemetry.success,
                   properties |-> telemetry.properties]]

createMetricData(telemetry) ==
    [baseType |-> DataTypes.METRIC,
     baseData |-> [kind |-> "MetricData",
                   metrics |->
                     <<[count |-> IF ~isNaN(telemetry.count) THEN telemetry.count ELSE Num(1),
                        max |-> IF ~isNaN(telemetry.max) THEN telemetry.max ELSE telemetry.value,
                        min |-> IF ~isNaN(telemetry.min) THEN telemetry.min ELSE telemetry.value,
                        name |-> telemetry.name,
                        stdDev |-> IF ~isNaN(telemetry.stdDev) THEN telemetry.stdDev ELSE Num(0),
                        value |-> telemetry.value]>>,
                   properties |-> telemetry.properties]]

\* The switch on telemetryType: an unrecognized type leaves data null.
NoData == [baseType |-> "", baseData |-> [kind |-> "null"], isNull |-> TRUE]

ConvertTelemetry(telemetry, telemetryType) ==
    CASE telemetryType = DataTypes.MESSAGE -> createTraceData(telemetry)
      [] telemetryType = DataTypes.REMOTE_DEPENDENCY -> createDependencyData(telemetry)
      [] telemetryType = DataTypes.EVENT -> createEventData(telemetry)
      [] telemetryType = DataTypes.EXCEPTION -> createExceptionData(telemetry)
      [] telemetryType = DataTypes.REQUEST -> createRequestData(telemetry)
      [] telemetryType = DataTypes.METRIC -> createMetricData(telemetry)
      [] OTHER -> NoData

IsNullData(data) == data.baseData.kind = "null"

\* for (var name in commonProperties) { if (!properties[name]) properties[name] = ...; }
MergeCommon(properties, commonProperties) ==
    [k \in DOMAIN properties \cup DOMAIN commonProperties |->
        IF k \in DOMAIN commonProperties /\ ~Truthy(Get(properties, k))
        THEN commonProperties[k] ELSE properties[k]]

\* Mutant of RemoveDashes: only the first dash goes (replace without /g).
RECURSIVE RemoveDashes_FirstOnly(_)
RemoveDashes_FirstOnly(s) ==
    IF s = "" THEN ""
    ELSE IF Head(s) = "-" THEN Tail(s)
    ELSE Head(s) \o RemoveDashes_FirstOnly(Tail(s))

\* iKey.replace(/-/g, "")
RECURSIVE RemoveDashes(_)
RemoveDashes(s) ==
    IF s = "" THEN ""
    ELSE IF Head(s) = "-" THEN RemoveDashes(Tail(s))
    ELSE Head(s) \o RemoveDashes(Tail(s))

\* String.prototype.substr(0, n)
Substr0(s, n) == IF n <= 0 THEN "" ELSE SubSeq(s, 1, IF n > Len(s) THEN Len(s) ELSE n)

EnvelopeName(iKey, baseType) ==
    "Microsoft.ApplicationInsights." \o RemoveDashes(iKey) \o "." \o
        Substr0(baseType, Len(baseType) - 4)

Raised(properties) ==
    [status |-> "raised", envelope |-> [ver |-> 0], properties |-> properties]

\* The outcome, and what telemetry.properties holds after the call (the
\* body's properties are the telemetry's own object until they are replaced).
createEnvelope(telemetry, telemetryType, commonProperties, context, config, correlationContext, now) ==
    LET data == ConvertTelemetry(telemetry, telemetryType)
        merges == Truthy(commonProperties) /\ ~IsNullData(data)
                     /\ domainSupportsProperties(data.baseData)
        body == data.baseData.properties
        merged == IF ~Truthy(body) THEN commonProperties
                  ELSE Bag(MergeCommon(body.map, commonProperties.map))
        after == IF merges /\ Truthy(body) THEN merged ELSE telemetry.properties
        safe == validateStringMap(merged)
        properties == IF merges
                      THEN (IF safe.isMap THEN Bag(safe.map) ELSE Undefined)
                      ELSE body
        iKey == IF Truthy(config) THEN Or(config.instrumentationKey, Str("")).s ELSE ""
        tags == getTags(context, telemetry.tagOverrides, correlationContext)
    IN IF IsNullData(data) THEN Raised(telemetry.properties)
       ELSE IF merges /\ safe.status = "raised" THEN Raised(after)
       ELSE IF tags.status = "raised" THEN Raised(after)
       ELSE [status |-> "returned",
             envelope |->
               [data |-> [baseType |-> data.baseType,
                          baseData |-> [data.baseData EXCEPT !.properties = properties]],
                iKey |-> iKey,
                name |-> EnvelopeName(iKey, data.baseType),
                tags |-> tags.tags,
                time |-> now,
                ver |-> 1,
                sampleRate |-> IF Truthy(config) THEN config.samplingPercentage
                               ELSE Num(100)],
             properties |-> after]

(***************************************************************************)
(* url.parse, on the URLs of the model: [scheme:]//host[:port][/path][?q]  *)
(* in lower case, or a text without "//" after a scheme, which has no      *)
(* host.  An absent component is null.                                     *)
(***************************************************************************)
\* The index of the first character of s that is in chars, Len(s) + 1 when none is
RECURSIVE IndexOfAny(_, _, _)
IndexOfAny(s, chars, i) ==
    IF i > Len(s) THEN i
    ELSE IF SubSeq(s, i, i) \in chars THEN i
    ELSE IndexOfAny(s, chars, i + 1)

NoUrl(text) == [protocol |-> Null, hostname |-> Null, port |-> Null, pathname |-> Str(text)]

UrlParse(text) ==
    LET colon == IndexOf(text, ":", 1)
        slashed == /\ colon > 1
                   /\ colon + 2 <= Len(text)
                   /\ SubSeq(text, colon + 1, colon + 2) = "//"
        rest == SubSeq(text, colon + 3, Len(text))
        hostEnd == IndexOfAny(rest, {"/", "?", "#"}, 1)
        authority == SubSeq(rest, 1, hostEnd - 1)
        portAt == IndexOf(authority, ":", 1)
        tail == SubSeq(rest, hostEnd, Len(rest))
        pathEnd == IndexOfAny(tail, {"?", "#"}, 1)
        path == SubSeq(tail, 1, pathEnd - 1)
    IN IF ~slashed THEN NoUrl(text)
       ELSE [protocol |-> Str(SubSeq(text, 1, colon)),
             hostname |-> Str(IF portAt = 0 THEN authority
                              ELSE SubSeq(authority, 1, portAt - 1)),
             port |-> IF portAt = 0 THEN Null
                      ELSE Str(SubSeq(authority, portAt + 1, Len(authority))),
             pathname |-> Str(IF path = "" THEN "/" ELSE path)]

(***************************************************************************)
(* Util.canIncludeCorrelationHeader.                                       *)
(***************************************************************************)
\* pattern.replace(/\./g, ".").replace(/\*/g, ".*"), compiled: the first
\* replacement puts a dot for a dot, so a dot stays the any-character atom,
\* and a star becomes a run of any characters.
RECURSIVE RegExpSource(_)
RegExpSource(pattern) ==
    IF pattern = "" THEN <<>>
    ELSE LET c == SubSeq(pattern, 1, 1)
         IN <<IF c = "*" THEN [kind |-> "anyRun"]
              ELSE IF c = "." THEN [kind |-> "any"]
              ELSE [kind |-> "char", c |-> c]>>
            \o RegExpSource(SubSeq(pattern, 2, Len(pattern)))

\* Whether the atoms match a prefix of text
RECURSIVE MatchHere(_, _)
MatchHere(atoms, text) ==
    IF atoms = <<>> THEN TRUE
    ELSE LET a == Head(atoms)
         IN IF a.kind = "anyRun"
            THEN \E k \in 0..Len(text) : MatchHere(Tail(atoms), SubSeq(text, k + 1, Len(text)))
            ELSE /\ Len(text) > 0
                 /\ (a.kind = "char" => SubSeq(text, 1, 1) = a.c)
                 /\ MatchHere(Tail(atoms), SubSeq(text, 2, Len(text)))

\* RegExp.prototype.test: the expression is not anchored
RegExpTest(atoms, text) ==
    \E k \in 0..Len(text) : MatchHere(atoms, SubSeq(text, k + 1, Len(text)))

Client(config) == [t |-> "client", config |-> config]
DomainConfig(excludedDomains) ==
    [t |-> "config", correlationHeaderExcludedDomains |-> excludedDomains]

\* client && client.config && client.config.correlationHeaderExcludedDomains
ExcludedDomainsOf(client) ==
    IF ~Truthy(client) THEN client
    ELSE IF ~Truthy(client.config) THEN client.config
    ELSE client.config.correlationHeaderExcludedDomains

RECURSIVE ExcludedLoop(_, _, _)
ExcludedLoop(excludedDomains, i, requestUrl) ==
    IF i > Len(excludedDomains) THEN TRUE
    ELSE LET regex == RegExpSource(excludedDomains[i].s)
             hostname == UrlParse(requestUrl.s).hostname
         IN IF ~Truthy(hostname) \/ RegExpTest(regex, hostname.s) THEN FALSE
            ELSE ExcludedLoop(excludedDomains, i + 1, requestUrl)

canIncludeCorrelationHeader(client, requestUrl) ==
    LET excludedDomains == ExcludedDomainsOf(client)
    IN IF ~Truthy(excludedDomains) \/ Len(excludedDomains.items) = 0 \/ ~Truthy(requestUrl)
       THEN TRUE
       ELSE ExcludedLoop(excludedDomains.items, 1, requestUrl)

(***************************************************************************)
(* Util.safeIncludeCorrelationHeader and addCorrelationIdHeaderFromString. *)
(***************************************************************************)
\* RequestResponseHeaders.requestContextSourceKey
requestContextSourceKey == "appId"

\* An object whose toString returns text, one whose toString throws, and one
\* without a toString method.
StringableObject(text) ==
    [t |-> "object", ctor |-> "Object", cyclic |-> FALSE, hasToJSON |-> FALSE,
     fields |-> <<>>, hasToString |-> TRUE, toStringThrows |-> FALSE, text |-> text]
ThrowingObject ==
    [t |-> "object", ctor |-> "Object", cyclic |-> FALSE, hasToJSON |-> FALSE,
     fields |-> <<>>, hasToString |-> TRUE, toStringThrows |-> TRUE, text |-> ""]
BareObject ==
    [t |-> "object", ctor |-> "", cyclic |-> FALSE, hasToJSON |-> FALSE,
     fields |-> <<>>, hasToString |-> FALSE, toStringThrows |-> FALSE, text |-> ""]

\* Mutant of Split: the text is not split.
Split_Whole(s, ch) == <<s>>

\* String.prototype.split(ch)
RECURSIVE Split(_, _)
Split(s, ch) ==
    LET i == IndexOf(s, ch, 1)
    IN IF i = 0 THEN <<s>>
       ELSE <<SubSeq(s, 1, i - 1)>> \o Split(SubSeq(s, i + 1, Len(s)), ch)

\* Array.prototype.join(sep), of an array of strings
RECURSIVE Join(_, _)
Join(items, sep) ==
    IF items = <<>> THEN ""
    ELSE IF Len(items) = 1 THEN items[1].s
    ELSE items[1].s \o sep \o Join(Tail(items), sep)

\* String.prototype.startsWith
startsWith(s, prefix) ==
    Len(s) >= Len(prefix) /\ SubSeq(s, 1, Len(prefix)) = prefix

\* Mutant of Found: no component is ever found.
Found_Never(components, key) == FALSE

\* components.some((value) => value.startsWith(key))
Found(components, key) ==
    \E i \in 1..Len(components) : startsWith(components[i], key)

\* What the call does to the request: the header it sets, or nothing.
NotWritten == [written |-> FALSE, value |-> ""]
SetHeader(value) == [written |-> TRUE, value |-> value]

addCorrelationIdHeaderFromString(cid, correlationHeader) ==
    LET components == Split(correlationHeader, ",")
        key == requestContextSourceKey \o "="
    IN IF ~Found(components, key)
       THEN SetHeader(correlationHeader \o "," \o requestContextSourceKey \o "=" \o cid)
       ELSE NotWritten

\* The cast of correlationHeader to a string: undefined when there is none.
HeaderString(correlationHeader) ==
    IF TypeOf(correlationHeader) = "string" THEN correlationHeader
    ELSE IF correlationHeader.t = "array" THEN Str(Join(correlationHeader.items, ","))
    ELSE IF Truthy(correlationHeader)
            /\ (correlationHeader.t = "object" => correlationHeader.hasToString)
    THEN IF correlationHeader.t = "object"
         THEN (IF correlationHeader.toStringThrows THEN Undefined
               ELSE Str(correlationHeader.text))
         ELSE Str(toString(correlationHeader))
    ELSE Undefined

safeIncludeCorrelationHeader(cid, correlationHeader) ==
    LET header == HeaderString(correlationHeader)
    IN IF TypeOf(header) # "undefined"
       THEN addCorrelationIdHeaderFromString(cid, header.s)
       ELSE SetHeader(requestContextSourceKey \o "=" \o cid)

(***************************************************************************)
(* Util.makeRequest.  The request made is the module that sends it (http   *)
(* or https) and the options it is given.                                  *)
(***************************************************************************)
Agent(name) == [t |-> "agent", name |-> name]

\* Util.tlsRestrictedAgent
tlsRestrictedAgent == Agent("tlsRestricted")

RequestOptions(method, headers, agent) ==
    [method |-> method, headers |-> headers, agent |-> agent,
     host |-> Undefined, port |-> Undefined, path |-> Undefined]

ProxyConfig(proxyHttpUrl, proxyHttpsUrl, httpAgent, httpsAgent) ==
    [t |-> "config", proxyHttpUrl |-> proxyHttpUrl, proxyHttpsUrl |-> proxyHttpsUrl,
     httpAgent |-> httpAgent, httpsAgent |-> httpsAgent]

\* if (url && url.startsWith("//")) { url = scheme + url; }
WithScheme(urlText, scheme) ==
    IF urlText # "" /\ startsWith(urlText, "//") THEN scheme \o urlText ELSE urlText

\* The proxy configured for the target's protocol
ProxyUrlFor(config, protocol) ==
    IF protocol = Str("https:") THEN Or(config.proxyHttpsUrl, Undefined)
    ELSE IF protocol = Str("http:") THEN Or(config.proxyHttpUrl, Undefined)
    ELSE Undefined

\* { ...options.headers, Host: hostname ?? undefined }
WithHostHeader(headers, hostname) ==
    Bag(Put(IF headers.t = "bag" THEN headers.map ELSE EmptyMap, "Host",
            IF hostname = Null THEN Undefined ELSE hostname))

\* Mutant of ProxyPort: no default port.
ProxyPort_NoDefault(proxyUrlParsed) == proxyUrlParsed.port

\* proxyUrlParsed.port || "80"
ProxyPort(proxyUrlParsed) == Or(proxyUrlParsed.port, Str("80"))

\* Mutant of SelectAgent: the agent of the options is always kept.
SelectAgent_Kept(isHttps, config, options) == options.agent

SelectAgent(isHttps, config, options) ==
    IF isHttps /\ config.httpsAgent # Undefined THEN config.httpsAgent
    ELSE IF ~isHttps /\ config.httpAgent # Undefined THEN config.httpAgent
    ELSE IF isHttps THEN tlsRestrictedAgent
    ELSE options.agent

ProxyNotSupported == [level |-> "info", message |-> "Proxies that use HTTPS are not supported"]

makeRequest(config, requestUrl, requestOptions) ==
    IF TypeOf(requestUrl) # "string" THEN [status |-> "raised", error |-> "TypeError"]
    ELSE
    LET urlText == WithScheme(requestUrl.s, "https:")
        requestUrlParsed == UrlParse(urlText)
        options0 == [requestOptions EXCEPT !.host = requestUrlParsed.hostname,
                                           !.port = requestUrlParsed.port,
                                           !.path = requestUrlParsed.pathname]
        proxyUrl0 == ProxyUrlFor(config, requestUrlParsed.protocol)
        proxyUrlParsed == UrlParse(WithScheme(proxyUrl0.s, "http:"))
        httpsProxy == Truthy(proxyUrl0) /\ proxyUrlParsed.protocol = Str("https:")
        proxied == Truthy(proxyUrl0) /\ ~httpsProxy
        options1 == IF proxied
                    THEN [options0 EXCEPT
                            !.host = proxyUrlParsed.hostname,
                            !.port = ProxyPort(proxyUrlParsed),
                            !.path = Str(urlText),
                            !.headers = WithHostHeader(options0.headers,
                                                       requestUrlParsed.hostname)]
                    ELSE options0
        isHttps == requestUrlParsed.protocol = Str("https:") /\ ~proxied
    IN [status |-> "returned",
        module |-> IF isHttps THEN "https" ELSE "http",
        options |-> [options1 EXCEPT !.agent = SelectAgent(isHttps, config, options1)],
        log |-> IF httpsProxy THEN <<ProxyNotSupported>> ELSE <<>>]

(***************************************************************************)
(* Inputs and specifications.                                              *)
(***************************************************************************)
SmallLine == FrameLine(3, 7, 10, 5)
BigLine == FrameLine(8200, 7, 10, 5)
HugeLine == FrameLine(17000, 7, 10, 5)
LineShapes == {TextLine, SmallLine, BigLine, HugeLine}

Stacks ==
    {[isString |-> FALSE, lines |-> <<>>]}
    \cup {[isString |-> TRUE, lines |-> l] :
            l \in UNION {[1..n -> LineShapes] : n \in 1..MaxLines}}

InitStack == stack \in Stacks /\ parsedStack = Pending /\ IdleSan /\ IdleTags /\ IdleEnv /\ IdleHdr /\ IdleUtil /\ IdleSdk

CallParseStack ==
    /\ parsedStack.status = "pending"
    /\ parsedStack' = parseStack(stack)
    /\ UNCHANGED <<stack, sanVars, tagVars, envVars, hdrVars, utilVars, sdkVars>>

(* C1: the sizes of the frames left in parsedStack add up to at most 32768. *)
RECURSIVE SumSizes(_)
SumSizes(fs) == IF fs = <<>> THEN 0 ELSE Head(fs).sizeInBytes + SumSizes(Tail(fs))

C1_SizeBounded ==
    (parsedStack.status = "returned" /\ parsedStack.isArray)
        => SumSizes(parsedStack.frames) <= 32768

(* C2: when the parsed frames exceed 32768 bytes, the result is a prefix   *)
(* and a suffix of them, and the top and the bottom frame are both kept.   *)
AllParsed(stk) == ParseFrames(stk.lines, 0, 0, <<>>, 0)

IsPrefixThenSuffix(res, all) ==
    \E i \in 0..Len(all), j \in 1..(Len(all) + 1) :
        i < j /\ res = SubSeq(all, 1, i) \o SubSeq(all, j, Len(all))

HasLevel(res, lv) == \E k \in 1..Len(res) : res[k].level = lv

C2_OutermostKept ==
    (parsedStack.status = "returned" /\ parsedStack.isArray
       /\ AllParsed(stack).totalSizeInBytes > 32768)
        => LET all == AllParsed(stack).parsedStack
           IN /\ IsPrefixThenSuffix(parsedStack.frames, all)
              /\ HasLevel(parsedStack.frames, 0)
              /\ HasLevel(parsedStack.frames, Len(all) - 1)

\* What the frames p places from each end, and all before them, add up to
RECURSIVE PairSum(_, _)
PairSum(all, p) ==
    all[p + 1].sizeInBytes + all[Len(all) - p].sizeInBytes
        + (IF p = 0 THEN 0 ELSE PairSum(all, p - 1))

\* The pointer pairs (p, n - 1 - p) at which the running total passes the threshold
TriggerPairs(all) ==
    {p \in 0..(Len(all) - 1) : p < Len(all) - 1 - p /\ PairSum(all, p) > 32768}

(* C17: when truncation triggers at the pair (left, right), the frames     *)
(* kept are frames 0..left-1 and right+1..n-1 of the n parsed frames.      *)
C17_ConsumedKept ==
    (parsedStack.status = "returned" /\ parsedStack.isArray
       /\ AllParsed(stack).totalSizeInBytes > 32768
       /\ TriggerPairs(AllParsed(stack).parsedStack) # {})
        => LET all == AllParsed(stack).parsedStack
               left == CHOOSE p \in TriggerPairs(all) : \A q \in TriggerPairs(all) : p <= q
           IN parsedStack.frames =
                SubSeq(all, 1, left) \o SubSeq(all, Len(all) - left + 1, Len(all))

NextStack == CallParseStack

SpecStack == InitStack /\ [][NextStack]_vars

(***************************************************************************)
(* validateStringMap on its own.                                           *)
(***************************************************************************)
LongText == Repeat("ab", MAX_PROPERTY_LENGTH \div 2) \o "c"
ExactText == Repeat("ab", MAX_PROPERTY_LENGTH \div 2)

PropertyValues ==
    {Str(""), Str("1"), Str(LongText), Str(ExactText),
     Num(0), Num(42), Bool(FALSE), Bool(TRUE), Null, Undefined, Func,
     Arr(<<Num(1), Str("a"), Undefined>>),
     Err("boom", Undefined, Str("E1")),
     ToJSONObject("Date", Str("2020-01-01T00:00:00.000Z")),
     ToJSONObject("Object", Num(5)),
     ToJSONObject("Object", Bool(TRUE)),
     ToJSONObject("Object", Undefined),
     ToJSONObject("Object", PlainObject(<<<<"x", Num(1)>>>>)),
     PlainObject(<<<<"x", Num(1)>>, <<"y", Str("z")>>>>),
     PlainObject(<<<<"x", Str(LongText)>>>>),
     CyclicObject}

PropertyKeys == {"a", "b"}

Bags(keys, values) == {Bag(m) : m \in UNION {[d -> values] : d \in SUBSET keys}}

SanitizerInputs ==
    Bags(PropertyKeys, PropertyValues)
    \cup {Null, Undefined, Str("text"), Num(7), Bool(TRUE), Func}

InitSan == obj \in SanitizerInputs /\ sanitized = Pending /\ IdleStack /\ IdleTags /\ IdleEnv /\ IdleHdr /\ IdleUtil /\ IdleSdk

CallValidateStringMap ==
    /\ sanitized.status = "pending"
    /\ sanitized' = validateStringMap(obj)
    /\ UNCHANGED <<obj, stackVars, tagVars, envVars, hdrVars, utilVars, sdkVars>>

NextSan == CallValidateStringMap

SpecSan == InitSan /\ [][NextSan]_vars

(* C5: for an object bag the map returned by validateStringMap has no entry *)
(* for a function-valued key, has an entry for every other key, and every  *)
(* value in it is a string of at most 8192 characters, a longer string     *)
(* being cut to its first 8192 characters; an input that is not an object  *)
(* gives undefined.                                                        *)
C5_SanitizedMap ==
    sanitized.status = "returned" =>
        IF TypeOf(obj) = "object"
        THEN LET in == IF obj.t = "bag" THEN obj.map ELSE <<>>
             IN /\ sanitized.isMap
                /\ DOMAIN sanitized.map = {k \in DOMAIN in : TypeOf(in[k]) # "function"}
                /\ \A k \in DOMAIN sanitized.map :
                      /\ sanitized.map[k].t = "string"
                      /\ Len(sanitized.map[k].s) <= 8192
                      /\ in[k].t = "string" =>
                            sanitized.map[k].s =
                               IF Len(in[k].s) > 8192 THEN SubSeq(in[k].s, 1, 8192)
                               ELSE in[k].s
        ELSE ~sanitized.isMap

(* C18: for an object bag validateStringMap does not raise: a function     *)
(* entry is dropped, every other entry is mapped to a string, and a value  *)
(* that cannot be serialized gives its type name and the failure message.  *)
C18_NeverRaises ==
    (sanitized.status # "pending" /\ obj.t = "bag") =>
        /\ sanitized.status = "returned"
        /\ \A k \in DOMAIN obj.map :
              IF TypeOf(obj.map[k]) = "function"
              THEN k \notin DOMAIN sanitized.map
              ELSE /\ k \in DOMAIN sanitized.map
                   /\ sanitized.map[k].t = "string"
                   /\ obj.map[k] = CyclicObject =>
                        sanitized.map[k].s =
                          "Object (Error: Converting circular structure to JSON)"

C5_Witness ==
    /\ sanitized.status = "returned"
    /\ obj.t = "bag"
    /\ \E k \in DOMAIN obj.map : TypeOf(obj.map[k]) = "function"
    /\ \E k \in DOMAIN obj.map :
          /\ obj.map[k].t = "string"
          /\ Len(obj.map[k].s) > 8192
          /\ Len(sanitized.map[k].s) = 8192

(***************************************************************************)
(* getTags on its own.                                                     *)
(***************************************************************************)
TagKeys ==
    {ContextTagKeys.operationId, ContextTagKeys.operationName,
     ContextTagKeys.operationParentId, "ai.cloud.role"}

CorrelationKeys ==
    {ContextTagKeys.operationId, ContextTagKeys.operationName,
     ContextTagKeys.operationParentId}

TagMaps(values) == {Bag(m) : m \in [TagKeys -> values \cup {Undefined}]}

\* a map in which a key whose value is Undefined above is absent
Present(b) == Bag([k \in {x \in DOMAIN b.map : b.map[x] # Undefined} |-> b.map[k]])

TagContexts ==
    {Undefined, Context(Undefined)}
    \cup {Context(Present(b)) : b \in TagMaps({Str(""), Str("d")})}

TagOverrides ==
    {Undefined} \cup {Present(b) : b \in TagMaps({Str(""), Str("o")})}

CorrelationContexts ==
    {Null,
     CorrelationContext(Str("cid"), Str("cname"), Str("cpid")),
     CorrelationContext(Str("cid"), Str("cname"), Undefined)}

InitTags ==
    /\ tagArgs \in [context : TagContexts, tagOverrides : TagOverrides,
                     correlationContext : CorrelationContexts]
    /\ newTags = Pending
    /\ IdleStack /\ IdleSan /\ IdleEnv /\ IdleHdr /\ IdleUtil /\ IdleSdk

CallGetTags ==
    /\ newTags.status = "pending"
    /\ newTags' = getTags(tagArgs.context, tagArgs.tagOverrides,
                          tagArgs.correlationContext)
    /\ UNCHANGED <<tagArgs, stackVars, sanVars, envVars, hdrVars, utilVars, sdkVars>>

NextTags == CallGetTags

SpecTags == InitTags /\ [][NextTags]_vars

\* What the arguments hold for key k, before the correlation context is looked at.
OverrideHas(k) ==
    tagArgs.tagOverrides # Undefined /\ k \in DOMAIN tagArgs.tagOverrides.map
DefaultHas(k) ==
    /\ tagArgs.context # Undefined
    /\ tagArgs.context.tags # Undefined
    /\ k \in DOMAIN tagArgs.context.tags.map
CorrelationValue(k) ==
    LET op == tagArgs.correlationContext.operation
    IN CASE k = "ai.operation.id" -> op.id
         [] k = "ai.operation.name" -> op.name
         [] k = "ai.operation.parentId" -> op.parentId

(* C7 as claimed: an override's value is the result whenever the override  *)
(* map has the key, else the default's value; the correlation context      *)
(* supplies a value only for its three keys and only when neither has one. *)
C7_OverrideNeverReplaced ==
    newTags.status = "returned" =>
        \A k \in TagKeys :
            IF OverrideHas(k) THEN Get(newTags.tags, k) = tagArgs.tagOverrides.map[k]
            ELSE IF DefaultHas(k) THEN Get(newTags.tags, k) = tagArgs.context.tags.map[k]
            ELSE IF tagArgs.correlationContext # Null /\ k \in CorrelationKeys
                 THEN Get(newTags.tags, k) = CorrelationValue(k)
                 ELSE k \notin DOMAIN newTags.tags

(* C7 as amended: the same, except that on the three correlation keys an   *)
(* empty-string value from the overrides or the defaults counts as unset   *)
(* when a correlation context is active, and is replaced by its value.     *)
C7_NonEmptyNeverReplaced ==
    newTags.status = "returned" =>
        \A k \in TagKeys :
            LET has == OverrideHas(k) \/ DefaultHas(k)
                base == IF OverrideHas(k) THEN tagArgs.tagOverrides.map[k]
                        ELSE IF DefaultHas(k) THEN tagArgs.context.tags.map[k]
                        ELSE Undefined
            IN IF tagArgs.correlationContext # Null /\ k \in CorrelationKeys
               THEN /\ k \in DOMAIN newTags.tags
                    /\ newTags.tags[k] =
                          IF has /\ base # Str("") THEN base ELSE CorrelationValue(k)
               ELSE IF has THEN k \in DOMAIN newTags.tags /\ newTags.tags[k] = base
               ELSE k \notin DOMAIN newTags.tags

C7_Witness ==
    /\ newTags.status = "returned"
    /\ tagArgs.correlationContext # Null
    /\ OverrideHas("ai.operation.id")
    /\ tagArgs.tagOverrides.map["ai.operation.id"] = Str("o")
    /\ newTags.tags["ai.operation.id"] = Str("o")
    /\ OverrideHas("ai.operation.name")
    /\ tagArgs.tagOverrides.map["ai.operation.name"] = Str("")
    /\ newTags.tags["ai.operation.name"] = Str("cname")
    /\ ~OverrideHas("ai.cloud.role") /\ DefaultHas("ai.cloud.role")
    /\ newTags.tags["ai.cloud.role"] = Str("d")

(***************************************************************************)
(* createEnvelope.                                                         *)
(***************************************************************************)
TelemetryTypes ==
    {DataTypes.MESSAGE, DataTypes.REMOTE_DEPENDENCY, DataTypes.EVENT,
     DataTypes.EXCEPTION, DataTypes.REQUEST, DataTypes.METRIC, "UnknownData"}

TelemetryProperties ==
    {Undefined}
    \cup Bags(PropertyKeys, {Str(""), Str("1"), Num(0), Bool(FALSE), Func})

CommonProperties == {Undefined} \cup Bags(PropertyKeys, {Str("2")})

EnvelopeTagOverrides ==
    {Undefined, Bag([k \in {ContextTagKeys.operationId} |-> Str("o")])}

EnvelopeStacks ==
    {[isString |-> FALSE, lines |-> <<>>],
     [isString |-> TRUE, lines |-> <<TextLine, SmallLine, SmallLine>>]}

\* One telemetry item of the given type: the fields its converter reads.
Telemetries(telemetryType) ==
    {[properties |-> p, tagOverrides |-> o, message |-> Str("hello"),
      severity |-> Undefined, name |-> Str("item"), success |-> Bool(TRUE),
      duration |-> Num(1500), value |-> Num(5), count |-> Undefined,
      min |-> Undefined, max |-> Undefined,
      stdDev |-> Undefined,
      exception |-> [message |-> Str("boom"), name |-> Str("Error"), stack |-> st]] :
        p \in TelemetryProperties, o \in EnvelopeTagOverrides,
        st \in IF telemetryType = DataTypes.EXCEPTION THEN EnvelopeStacks
               ELSE {[isString |-> FALSE, lines |-> <<>>]}}

Config(instrumentationKey, samplingPercentage) ==
    [t |-> "config", instrumentationKey |-> instrumentationKey,
     samplingPercentage |-> samplingPercentage]

Configs ==
    {Undefined,
     Config(Undefined, Num(50)), Config(Str(""), Num(100)), Config(Str("abc"), Num(0)),
     Config(Str("a-b-c"), Num(33)), Config(Str("-x--y"), Num(75))}

EnvelopeContexts ==
    {Undefined, Context(Bag([k \in {"ai.cloud.role"} |-> Str("d")]))}

EnvelopeCorrelationContexts ==
    {Null, CorrelationContext(Str("cid"), Str("cname"), Str("cpid"))}

Calls ==
    UNION {[telemetry : Telemetries(ty), telemetryType : {ty},
            commonProperties : CommonProperties, context : EnvelopeContexts,
            config : Configs, correlationContext : EnvelopeCorrelationContexts,
            now : {"2020-01-01T00:00:00.000Z"}] : ty \in TelemetryTypes}

HeapOf(c, properties) ==
    [properties |-> properties,
     commonProperties |-> c.commonProperties,
     tags |-> IF c.context = Undefined THEN Undefined ELSE c.context.tags,
     tagOverrides |-> c.telemetry.tagOverrides]

InitEnv ==
    /\ call \in Calls
    /\ heap = HeapOf(call, call.telemetry.properties)
    /\ envResult = Pending
    /\ IdleStack /\ IdleSan /\ IdleTags /\ IdleHdr /\ IdleUtil /\ IdleSdk

CallCreateEnvelope ==
    /\ envResult.status = "pending"
    /\ LET r == createEnvelope(call.telemetry, call.telemetryType,
                               call.commonProperties, call.context, call.config,
                               call.correlationContext, call.now)
       IN /\ envResult' = [status |-> r.status, envelope |-> r.envelope]
          /\ heap' = HeapOf(call, r.properties)
    /\ UNCHANGED <<call, stackVars, sanVars, tagVars, hdrVars, utilVars, sdkVars>>

NextEnv == CallCreateEnvelope

SpecEnv == InitEnv /\ [][NextEnv]_vars

EnvelopeProperties == envResult.envelope.data.baseData.properties

(* C3 as claimed: with a properties map on the body and commonProperties   *)
(* given, every key of the body keeps the body's value, whatever it is,    *)
(* and every key only in commonProperties is added with the common value.  *)
C3_MergeKeepsBody ==
    (envResult.status = "returned" /\ call.commonProperties # Undefined
       /\ call.telemetry.properties # Undefined)
        => LET body == call.telemetry.properties.map
               common == call.commonProperties.map
           IN /\ \A k \in DOMAIN body :
                    TypeOf(body[k]) # "function" =>
                        /\ k \in DOMAIN EnvelopeProperties.map
                        /\ EnvelopeProperties.map[k] = Str(toString(body[k]))
              /\ \A k \in DOMAIN common \ DOMAIN body :
                    /\ k \in DOMAIN EnvelopeProperties.map
                    /\ EnvelopeProperties.map[k] = common[k]

(* C4 as claimed: whenever the body supports properties, the envelope's    *)
(* properties are sanitizer output (undefined, or a map of strings of at   *)
(* most 8192 characters), with commonProperties given or absent.           *)
C4_AlwaysSanitized ==
    envResult.status = "returned" =>
        \/ EnvelopeProperties = Undefined
        \/ /\ EnvelopeProperties.t = "bag"
           /\ \A k \in DOMAIN EnvelopeProperties.map :
                 /\ EnvelopeProperties.map[k].t = "string"
                 /\ Len(EnvelopeProperties.map[k].s) <= 8192

(* C6 as claimed: createEnvelope never raises. *)
C6_NeverRaises == envResult.status # "raised"

(* C10: the envelope of each of the six variants has the variant's base    *)
(* type, the name "Microsoft.ApplicationInsights." + the instrumentation   *)
(* key without dashes + "." + the base type without "Data", ver 1, iKey "" *)
(* and sampleRate 100 without a config, config.samplingPercentage with one.*)
ShortName(baseType) ==
    CASE baseType = "MessageData" -> "Message"
      [] baseType = "RemoteDependencyData" -> "RemoteDependency"
      [] baseType = "EventData" -> "Event"
      [] baseType = "ExceptionData" -> "Exception"
      [] baseType = "RequestData" -> "Request"
      [] baseType = "MetricData" -> "Metric"

KeyWithoutDashes(key) ==
    CASE key = Undefined -> ""
      [] key = Str("") -> ""
      [] key = Str("abc") -> "abc"
      [] key = Str("a-b-c") -> "abc"
      [] key = Str("-x--y") -> "xy"

C10_EnvelopeFields ==
    envResult.status = "returned" =>
        LET e == envResult.envelope
            key == IF call.config = Undefined THEN Undefined
                   ELSE call.config.instrumentationKey
        IN /\ call.telemetryType # "UnknownData"
           /\ e.data.baseType = call.telemetryType
           /\ e.name = "Microsoft.ApplicationInsights." \o KeyWithoutDashes(key)
                          \o "." \o ShortName(call.telemetryType)
           /\ e.ver = 1
           /\ call.config = Undefined => e.iKey = "" /\ e.sampleRate = Num(100)
           /\ call.config # Undefined =>
                 e.sampleRate = call.config.samplingPercentage

C10_Witness ==
    /\ envResult.status = "returned"
    /\ call.telemetryType = "RemoteDependencyData"
    /\ call.config # Undefined
    /\ call.config.instrumentationKey = Str("a-b-c")
    /\ envResult.envelope.name = "Microsoft.ApplicationInsights.abc.RemoteDependency"
    /\ envResult.envelope.sampleRate = Num(33)

(***************************************************************************)
(* safeIncludeCorrelationHeader, applied again and again to the header the *)
(* request holds.                                                          *)
(***************************************************************************)
HeaderComponents == {"appId=x", "foo=bar", "", " appId=y", "appIdx=1"}

HeaderTexts ==
    {Join(c, ",") :
        c \in UNION {[1..n -> {Str(x) : x \in HeaderComponents}] : n \in 1..MaxComponents}}

HeaderArrays ==
    {Arr(a) : a \in UNION {[1..n -> {Str("appId=x"), Str("foo=bar"), Str("a=1,b=2")}] :
                              n \in 0..2}}

HeaderValues ==
    {Str(h) : h \in HeaderTexts} \cup HeaderArrays
    \cup {Undefined, Null, Num(0), Num(5), Bool(FALSE), Bool(TRUE),
          ThrowingObject, BareObject, StringableObject("appId=z"),
          StringableObject("foo=bar")}

CorrelationIds == {"cid-v1:1", "x"}

InitHdr ==
    /\ reqHeader \in HeaderValues
    /\ correlationId \in CorrelationIds
    /\ hdrCall = [applied |-> 0, start |-> reqHeader, given |-> reqHeader,
                  written |-> FALSE, first |-> reqHeader]
    /\ IdleStack /\ IdleSan /\ IdleTags /\ IdleEnv /\ IdleUtil /\ IdleSdk

\* The caller passes the header the request holds; setHeader replaces it.
AttachCorrelationHeader ==
    /\ hdrCall.applied < MaxApplications
    /\ LET w == safeIncludeCorrelationHeader(correlationId, reqHeader)
           after == IF w.written THEN Str(w.value) ELSE reqHeader
       IN /\ reqHeader' = after
          /\ hdrCall' = [applied |-> hdrCall.applied + 1,
                         start |-> hdrCall.start,
                         given |-> reqHeader,
                         written |-> w.written,
                         first |-> IF hdrCall.applied = 0 THEN after ELSE hdrCall.first]
    /\ UNCHANGED <<correlationId, stackVars, sanVars, tagVars, envVars, utilVars, sdkVars>>

NextHdr == AttachCorrelationHeader

SpecHdr == InitHdr /\ [][NextHdr]_vars

\* The text a header value stands for: an array's elements joined by commas.
TextOf(v) ==
    CASE v.t = "string" -> v.s
      [] v.t = "array" -> Join(v.items, ",")
      [] v.t = "object" -> v.text
      [] v.t = "number" -> IF v.n = 5 THEN "5" ELSE "0"
      [] v.t = "boolean" -> IF v.b THEN "true" ELSE "false"
      [] OTHER -> ""

\* The places of text where a comma-separated component starts with "appId=".
SourceKeyStarts(text) ==
    {i \in 1..Len(text) :
        /\ i + 5 <= Len(text)
        /\ SubSeq(text, i, i + 5) = "appId="
        /\ (i = 1 \/ SubSeq(text, i - 1, i - 1) = ",")}

(* C8: an absent header, or one that cannot be turned into a string, gives *)
(* the header "appId=C"; a string or multi-valued header with no component *)
(* starting with "appId=" gives that text followed by ",appId=C"; one with *)
(* such a component leaves the request's header unwritten.                 *)
C8_HeaderAttached ==
    hdrCall.applied >= 1 =>
        LET g == hdrCall.given
        IN /\ g \in {Undefined, Null, ThrowingObject, BareObject} =>
                 hdrCall.written /\ reqHeader = Str("appId=" \o correlationId)
           /\ (g.t \in {"string", "array"} /\ SourceKeyStarts(TextOf(g)) = {}) =>
                 /\ hdrCall.written
                 /\ reqHeader = Str(TextOf(g) \o ",appId=" \o correlationId)
           /\ (g.t \in {"string", "array"} /\ SourceKeyStarts(TextOf(g)) # {}) =>
                 ~hdrCall.written /\ reqHeader = g

C8_Witness ==
    /\ hdrCall.applied = 1
    /\ hdrCall.given = Arr(<<Str("foo=bar"), Str("a=1,b=2")>>)
    /\ hdrCall.written
    /\ reqHeader = Str("foo=bar,a=1,b=2,appId=cid-v1:1")

\* Whether the code reads a header value as text at all.
Readable(v) ==
    v.t \in {"string", "array"} \/ v \in {Num(5), Bool(TRUE)}
       \/ (v.t = "object" /\ v.hasToString /\ ~v.toStringThrows)

SourceKeyCount(v) ==
    IF Readable(v) THEN Cardinality(SourceKeyStarts(TextOf(v))) ELSE 0

(* C9 as claimed: after any number of applications the header equals the   *)
(* value after the first one, and never holds more than one component      *)
(* starting with the source key, whatever the starting header.             *)
C9_AtMostOneSourceKey ==
    hdrCall.applied >= 1 =>
        reqHeader = hdrCall.first /\ SourceKeyCount(reqHeader) <= 1

(* C9 as amended: the header equals the value after the first application, *)
(* and holds one source-key component when the starting header had none,   *)
(* else exactly as many as the starting header had.                        *)
C9_Idempotent ==
    hdrCall.applied >= 1 =>
        /\ reqHeader = hdrCall.first
        /\ SourceKeyCount(reqHeader) =
              IF SourceKeyCount(hdrCall.start) = 0 THEN 1
              ELSE SourceKeyCount(hdrCall.start)

C9_Witness ==
    /\ hdrCall.applied = MaxApplications
    /\ hdrCall.start = Str("foo=bar, appId=y")
    /\ reqHeader = Str("foo=bar, appId=y,appId=x")
    /\ ~hdrCall.written

(* C15: after the call the telemetry's properties map, commonProperties,   *)
(* the context's default tags and the telemetry's tagOverrides hold what   *)
(* they held before it.                                                    *)
C15_InputsUnchanged ==
    envResult.status # "pending" =>
        /\ heap.properties = call.telemetry.properties
        /\ heap.commonProperties = call.commonProperties
        /\ heap.tags = (IF call.context = Undefined THEN Undefined ELSE call.context.tags)
        /\ heap.tagOverrides = call.telemetry.tagOverrides

(***************************************************************************)
(* Util.msToTimeSpan, Util.canIncludeCorrelationHeader and                 *)
(* Util.makeRequest, each called once on one input.                        *)
(***************************************************************************)
WholeMs ==
    {0, 1, 10, 100, 999, 1000, 1500, 10000, 59999, 60000, 90000, 3599999, 3600000,
     86399999, 86400000, 90000000, 864000000}

MsFractions == {0, 1, 20, 300, 4000, 5678}

Durations ==
    {Ms(n, f) : n \in WholeMs, f \in MsFractions}
    \cup {Ms(0 - n, 0) : n \in WholeMs \ {0}} \cup {Ms(-1, 5000), Num(90000), NaN, Undefined}

TimeSpanCalls == {[fn |-> "msToTimeSpan", totalms |-> d] : d \in Durations}

CallMsToTimeSpan ==
    /\ utilCall.fn = "msToTimeSpan"
    /\ utilResult = Pending
    /\ utilResult' = [status |-> "returned", value |-> msToTimeSpan(utilCall.totalms)]
    /\ UNCHANGED <<utilCall, stackVars, sanVars, tagVars, envVars, hdrVars, sdkVars>>

\* The URLs of the model, each with the hostname it names ("" for none).
Hostnames ==
    [u \in {"https://api.excluded.com/p", "http://excluded.com.evil.org",
            "http://axb/", "https://excluded.com:8443/", "http://other.org/a/b?c=d",
            "https://excludedxcom.net", "/relative/path", "localhost"} |->
        CASE u = "https://api.excluded.com/p" -> "api.excluded.com"
          [] u = "http://excluded.com.evil.org" -> "excluded.com.evil.org"
          [] u = "http://axb/" -> "axb"
          [] u = "https://excluded.com:8443/" -> "excluded.com"
          [] u = "http://other.org/a/b?c=d" -> "other.org"
          [] u = "https://excludedxcom.net" -> "excludedxcom.net"
          [] OTHER -> ""]

RequestUrls == {Undefined, Str("")} \cup {Str(u) : u \in DOMAIN Hostnames}

DomainPatterns == {"*.excluded.com", "excluded.com", "a.b", "*", "evil", "api*com"}

Clients ==
    {Undefined, Client(Undefined), Client(DomainConfig(Undefined))}
    \cup {Client(DomainConfig(Arr(l))) :
            l \in UNION {[1..n -> {Str(d) : d \in DomainPatterns}] : n \in 0..MaxPatterns}}

DomainCalls ==
    {[fn |-> "canIncludeCorrelationHeader", client |-> c, requestUrl |-> u] :
        c \in Clients, u \in RequestUrls}

CallCanIncludeCorrelationHeader ==
    /\ utilCall.fn = "canIncludeCorrelationHeader"
    /\ utilResult = Pending
    /\ utilResult' =
         [status |-> "returned",
          value |-> canIncludeCorrelationHeader(utilCall.client, utilCall.requestUrl)]
    /\ UNCHANGED <<utilCall, stackVars, sanVars, tagVars, envVars, hdrVars, sdkVars>>

\* The target URLs of the model, each with what it names.
Targets ==
    [u \in {"https://dc.example.com/v2/track", "http://localhost:8080/track?x=1",
            "//cdn.example.com/a", "http://plain.example.com"} |->
        CASE u = "https://dc.example.com/v2/track" ->
               [scheme |-> "https", host |-> Str("dc.example.com"), port |-> Null,
                path |-> Str("/v2/track"), full |-> Str(u)]
          [] u = "http://localhost:8080/track?x=1" ->
               [scheme |-> "http", host |-> Str("localhost"), port |-> Str("8080"),
                path |-> Str("/track"), full |-> Str(u)]
          [] u = "//cdn.example.com/a" ->
               [scheme |-> "https", host |-> Str("cdn.example.com"), port |-> Null,
                path |-> Str("/a"), full |-> Str("https://cdn.example.com/a")]
          [] u = "http://plain.example.com" ->
               [scheme |-> "http", host |-> Str("plain.example.com"), port |-> Null,
                path |-> Str("/"), full |-> Str(u)]]

\* The proxy URLs of the model, each with what it names.
Proxies ==
    [u \in {"http://proxy:3128", "http://proxy.local", "//proxy:8080",
            "https://secureproxy:443/"} |->
        CASE u = "http://proxy:3128" ->
               [https |-> FALSE, host |-> Str("proxy"), port |-> Str("3128")]
          [] u = "http://proxy.local" ->
               [https |-> FALSE, host |-> Str("proxy.local"), port |-> Str("80")]
          [] u = "//proxy:8080" ->
               [https |-> FALSE, host |-> Str("proxy"), port |-> Str("8080")]
          [] u = "https://secureproxy:443/" ->
               [https |-> TRUE, host |-> Str("secureproxy"), port |-> Str("443")]]

TargetUrls ==
    {Str(u) : u \in DOMAIN Targets} \cup {Str("ftp://files.example.com/x"), Str(""), Undefined}

ProxyUrls == {Str(u) : u \in DOMAIN Proxies} \cup {Str(""), Undefined}

ProxyConfigs ==
    {ProxyConfig(p, ps, a, as) :
        p \in ProxyUrls, ps \in ProxyUrls,
        a \in {Undefined, Null, Agent("configHttp")},
        as \in {Undefined, Agent("configHttps")}}

BaseOptions ==
    {RequestOptions(Str("POST"), h, a) :
        h \in {Undefined, Bag([k \in {"Accept"} |-> Str("*/*")])},
        a \in {Undefined, Agent("base")}}

RequestCalls ==
    {[fn |-> "makeRequest", config |-> c, requestUrl |-> u, requestOptions |-> o] :
        c \in ProxyConfigs, u \in TargetUrls, o \in BaseOptions}

CallMakeRequest ==
    /\ utilCall.fn = "makeRequest"
    /\ utilResult = Pending
    /\ utilResult' =
         makeRequest(utilCall.config, utilCall.requestUrl, utilCall.requestOptions)
    /\ UNCHANGED <<utilCall, stackVars, sanVars, tagVars, envVars, hdrVars, sdkVars>>

InitUtil ==
    /\ utilCall \in TimeSpanCalls \cup DomainCalls \cup RequestCalls
    /\ utilResult = Pending
    /\ IdleStack /\ IdleSan /\ IdleTags /\ IdleEnv /\ IdleHdr /\ IdleSdk

NextUtil == CallMsToTimeSpan \/ CallCanIncludeCorrelationHeader \/ CallMakeRequest

SpecUtil == InitUtil /\ [][NextUtil]_vars

TimeSpanOf(n) ==
    utilCall.fn = "msToTimeSpan" /\ utilCall.totalms = Ms(n, 0)
        /\ utilResult.status = "returned"

(* C11: 0 ms gives "00:00:00", 90000 ms gives "00:01:30", 90000000 ms      *)
(* gives "1.01:00:00": whole seconds are rendered without a fraction; and  *)
(* a negative or non-numeric input gives the text 0 ms gives.              *)
C11_WholeSeconds ==
    /\ TimeSpanOf(0) => utilResult.value = "00:00:00"
    /\ TimeSpanOf(90000) => utilResult.value = "00:01:30"
    /\ TimeSpanOf(90000000) => utilResult.value = "1.01:00:00"
    /\ (/\ utilCall.fn = "msToTimeSpan"
        /\ utilResult.status = "returned"
        /\ (utilCall.totalms \in {NaN, Undefined} \/ utilCall.totalms.n < 0)) =>
            utilResult.value = "00:00:00"

\* Whether pattern matches a prefix of text when "*" stands for any substring
\* and every other character for itself.
RECURSIVE GlobHere(_, _)
GlobHere(pattern, text) ==
    IF pattern = "" THEN TRUE
    ELSE IF SubSeq(pattern, 1, 1) = "*"
    THEN \E k \in 0..Len(text) :
            GlobHere(SubSeq(pattern, 2, Len(pattern)), SubSeq(text, k + 1, Len(text)))
    ELSE /\ Len(text) > 0
         /\ SubSeq(text, 1, 1) = SubSeq(pattern, 1, 1)
         /\ GlobHere(SubSeq(pattern, 2, Len(pattern)), SubSeq(text, 2, Len(text)))

\* Whether pattern, read so, matches somewhere in text.
GlobFound(pattern, text) ==
    \E k \in 0..Len(text) : GlobHere(pattern, SubSeq(text, k + 1, Len(text)))

DomainCallReturned ==
    utilCall.fn = "canIncludeCorrelationHeader" /\ utilResult.status = "returned"

\* The exclusion list of the call's client, empty when there is none.
ListOf(client) ==
    IF client = Undefined \/ client.config = Undefined
          \/ client.config.correlationHeaderExcludedDomains = Undefined
    THEN <<>>
    ELSE client.config.correlationHeaderExcludedDomains.items

(* C12: with no exclusion list, an empty list or an empty URL the header   *)
(* is allowed; otherwise it is excluded exactly when the target has no     *)
(* hostname or some pattern matches the hostname, "*" matching any         *)
(* substring and every other pattern character only itself.                *)
C12_GlobExclusion ==
    DomainCallReturned =>
        LET list == ListOf(utilCall.client)
            u == utilCall.requestUrl
        IN IF list = <<>> \/ u \in {Undefined, Str("")}
           THEN utilResult.value = TRUE
           ELSE utilResult.value =
                  ~(\/ Hostnames[u.s] = ""
                    \/ \E i \in 1..Len(list) : GlobFound(list[i].s, Hostnames[u.s]))

\* A makeRequest call on a target of the table has returned.
RequestMade ==
    /\ utilCall.fn = "makeRequest"
    /\ utilResult.status = "returned"
    /\ utilCall.requestUrl \in {Str(u) : u \in DOMAIN Targets}

Target == Targets[utilCall.requestUrl.s]

\* The proxy URL the configuration holds for the target's scheme
ConfiguredProxy ==
    IF Target.scheme = "https" THEN utilCall.config.proxyHttpsUrl
    ELSE utilCall.config.proxyHttpUrl

HasProxy == ConfiguredProxy \in {Str(u) : u \in DOMAIN Proxies}
SentThroughProxy == HasProxy /\ ~Proxies[ConfiguredProxy.s].https

(* C13: with a proxy configured for the target's scheme that is not HTTPS, *)
(* host and port are the proxy's (port "80" when it has none), the path is *)
(* the full target URL, the Host header is the target's hostname and the   *)
(* request goes over plain HTTP; with an HTTPS proxy an info message is    *)
(* logged and the request keeps the target's host, port and path and goes  *)
(* directly over the target's scheme.                                      *)
C13_ProxyRouting ==
    (RequestMade /\ HasProxy) =>
        LET proxy == Proxies[ConfiguredProxy.s]
            options == utilResult.options
            base == utilCall.requestOptions.headers
        IN IF ~proxy.https
           THEN /\ options.host = proxy.host
                /\ options.port = proxy.port
                /\ options.path = Target.full
                /\ options.headers.map["Host"] = Target.host
                /\ base # Undefined =>
                     \A k \in DOMAIN base.map : options.headers.map[k] = base.map[k]
                /\ utilResult.module = "http"
                /\ utilResult.log = <<>>
           ELSE /\ utilResult.log =
                     <<[level |-> "info",
                        message |-> "Proxies that use HTTPS are not supported"]>>
                /\ options.host = Target.host
                /\ options.port = Target.port
                /\ options.path = Target.path
                /\ options.headers = base
                /\ utilResult.module = Target.scheme

C13_Witness ==
    /\ RequestMade
    /\ utilCall.requestUrl = Str("//cdn.example.com/a")
    /\ utilCall.config.proxyHttpsUrl = Str("http://proxy.local")
    /\ utilResult.options.port = Str("80")
    /\ utilResult.options.path = Str("https://cdn.example.com/a")
    /\ utilResult.module = "http"

(* C14: an HTTPS target not sent through a proxy uses config.httpsAgent    *)
(* when it is given and else the TLS-restricted agent, never the agent of  *)
(* the base options; a request over plain HTTP uses config.httpAgent when  *)
(* it is given and else keeps the agent of the base options; a URL that    *)
(* starts with "//" is an HTTPS target.                                    *)
C14_AgentSelection ==
    RequestMade =>
        LET agent == utilResult.options.agent
            config == utilCall.config
        IN /\ (Target.scheme = "https" /\ ~SentThroughProxy) =>
                 /\ utilResult.module = "https"
                 /\ agent = IF config.httpsAgent # Undefined THEN config.httpsAgent
                            ELSE Agent("tlsRestricted")
           /\ (Target.scheme = "http" \/ SentThroughProxy) =>
                 /\ utilResult.module = "http"
                 /\ agent = IF config.httpAgent # Undefined THEN config.httpAgent
                            ELSE utilCall.requestOptions.agent
           /\ (startsWith(utilCall.requestUrl.s, "//") /\ ~SentThroughProxy) =>
                 /\ utilResult.module = "https"
                 /\ utilResult.options.host = Target.host

C14_Witness ==
    /\ RequestMade
    /\ utilCall.requestUrl = Str("//cdn.example.com/a")
    /\ utilCall.config.proxyHttpsUrl = Str("https://secureproxy:443/")
    /\ utilCall.config.httpsAgent = Undefined
    /\ utilCall.config.httpAgent = Agent("configHttp")
    /\ utilCall.requestOptions.agent = Agent("base")
    /\ utilResult.module = "https"
    /\ utilResult.options.agent = Agent("tlsRestricted")

(***************************************************************************)
(* applicationinsights.ts: setup, start, dispose and the Configuration     *)
(* setters.  A telemetry client is known by its place in clients; a        *)
(* collector by the client it was created for.  Each call gives the        *)
(* module's variables and the clients after it, with what it did.          *)
(***************************************************************************)
\* A collector variable that has not been assigned
NoCollector == [client |-> 0, enabled |-> FALSE, disposed |-> FALSE]

\* new AutoCollectConsole(client), and so on
NewCollector(client) == [client |-> client, enabled |-> FALSE, disposed |-> FALSE]

\* collector.enable(value)
Enable(collector, value) == [collector EXCEPT !.enabled = value]

\* collector.dispose()
DisposeCollector(collector) ==
    IF collector = NoCollector THEN collector
    ELSE [collector EXCEPT !.enabled = FALSE, !.disposed = TRUE]

\* liveMetricsClient when there is none
NoLiveMetrics == [client |-> 0, enabled |-> FALSE]

\* new TelemetryClient(setupString)
NewClient == [spanExporter |-> FALSE, diskRetry |-> "unset", quickPulseClient |-> FALSE]

\* channel.setUseDiskRetryCaching(value, ...)
SetUseDiskRetryCaching(c, client, value) ==
    [c EXCEPT ![client].diskRetry = IF value THEN "on" ELSE "off"]

\* The module's variables when it is loaded
LoadedSdk ==
    [_isConsole |-> TRUE, _isConsoleLog |-> FALSE, _isExceptions |-> TRUE,
     _isPerformance |-> TRUE, _isHeartBeat |-> FALSE, _isDiskRetry |-> TRUE,
     _isSendingLiveMetrics |-> FALSE, _isNativePerformance |-> TRUE,
     _console |-> NoCollector, _exceptions |-> NoCollector,
     _performance |-> NoCollector, _heartbeat |-> NoCollector,
     _nativePerformance |-> NoCollector,
     _isStarted |-> FALSE, provider |-> FALSE, tracer |-> FALSE,
     defaultClient |-> 0, liveMetricsClient |-> NoLiveMetrics]

\* What a call did: the state it leaves, how it ended, what it logged, the
\* collectors it called enable(true) on, the objects it created, and the
\* calls it made to the channel's setUseDiskRetryCaching.
Done(s, c, outcome, log, enabledTrue, created, channelCalls) ==
    [sdk |-> s, clients |-> c, outcome |-> outcome, log |-> log,
     enabledTrue |-> enabledTrue, created |-> created, channelCalls |-> channelCalls]

Info(message) == [level |-> "info", message |-> message]
Warn(message) == [level |-> "warn", message |-> message]

\* Mutant of HasNoClient: setup always takes the branch that creates.
HasNoClient_Always(s) == TRUE

\* !defaultClient
HasNoClient(s) == s.defaultClient = 0

setup(s, c) ==
    LET id == Len(c) + 1
        fresh == HasNoClient(s)
        native == fresh /\ s._nativePerformance = NoCollector
        s1 == IF fresh
              THEN [s EXCEPT !.defaultClient = id,
                             !._console = NewCollector(id),
                             !._exceptions = NewCollector(id),
                             !._performance = NewCollector(id),
                             !._heartbeat = NewCollector(id),
                             !._nativePerformance =
                                 IF native THEN NewCollector(id) ELSE @]
              ELSE s
        c1 == IF fresh THEN Append(c, NewClient) ELSE c
    IN Done(s1, SetUseDiskRetryCaching(c1, s1.defaultClient, s._isDiskRetry),
            "returned",
            IF fresh THEN <<>> ELSE <<Info("The default client is already setup")>>,
            {},
            IF fresh
            THEN {"defaultClient", "_console", "_exceptions", "_performance", "_heartbeat"}
                   \cup (IF native THEN {"_nativePerformance"} ELSE {})
            ELSE {},
            1)

\* The collectors start() and the setters call enable(true) on
EnabledTrue(names, s) == {n \in names : s[n].enabled}

start(s, c) ==
    LET s1 == IF ~s.tracer THEN [s EXCEPT !.provider = TRUE] ELSE s
        c2 == IF ~s.tracer THEN [c EXCEPT ![s.defaultClient].spanExporter = TRUE] ELSE c
        s2 == IF ~s.tracer THEN [s1 EXCEPT !.tracer = TRUE] ELSE s1
        live == s2.liveMetricsClient.client # 0 /\ s2._isSendingLiveMetrics
        s3 == [s2 EXCEPT
                 !._isStarted = TRUE,
                 !._console = Enable(@, s2._isConsole),
                 !._exceptions = Enable(@, s2._isExceptions),
                 !._performance = Enable(@, s2._isPerformance),
                 !._heartbeat = Enable(@, s2._isHeartBeat),
                 !._nativePerformance = Enable(@, s2._isNativePerformance),
                 !.liveMetricsClient =
                     IF live THEN [@ EXCEPT !.enabled = TRUE] ELSE @]
    IN IF ~s.tracer /\ s.defaultClient = 0
       THEN \* defaultClient.setupSpanExporter() on no client: a TypeError
            Done(s1, c, "raised", <<>>, {}, {}, 0)
       ELSE IF s2.defaultClient # 0
       THEN Done(s3, c2, "returned", <<>>,
                 EnabledTrue({"_console", "_exceptions", "_performance", "_heartbeat",
                              "_nativePerformance"}, s3)
                   \cup (IF live THEN {"liveMetricsClient"} ELSE {}),
                 {}, 0)
       ELSE Done(s2, c2, "returned", <<Warn("Start cannot be called before setup")>>,
                 {}, {}, 0)

setAutoCollectConsole(s, c, value, collectConsoleLog) ==
    LET s1 == [s EXCEPT !._isConsole = value, !._isConsoleLog = collectConsoleLog]
    IN IF s._isStarted
       THEN Done([s1 EXCEPT !._console = Enable(@, value)], c, "returned", <<>>,
                 IF value THEN {"_console"} ELSE {}, {}, 0)
       ELSE Done(s1, c, "returned", <<>>, {}, {}, 0)

setAutoCollectExceptions(s, c, value) ==
    LET s1 == [s EXCEPT !._isExceptions = value]
    IN IF s._isStarted
       THEN Done([s1 EXCEPT !._exceptions = Enable(@, value)], c, "returned", <<>>,
                 IF value THEN {"_exceptions"} ELSE {}, {}, 0)
       ELSE Done(s1, c, "returned", <<>>, {}, {}, 0)

\* AutoCollectNativePerformance.parseEnabled of a boolean: enabled as given
setAutoCollectPerformance(s, c, value, collectExtendedMetrics) ==
    LET s1 == [s EXCEPT !._isPerformance = value,
                        !._isNativePerformance = collectExtendedMetrics]
    IN IF s._isStarted
       THEN Done([s1 EXCEPT !._performance = Enable(@, value),
                            !._nativePerformance = Enable(@, collectExtendedMetrics)],
                 c, "returned", <<>>,
                 (IF value THEN {"_performance"} ELSE {})
                   \cup (IF collectExtendedMetrics THEN {"_nativePerformance"} ELSE {}),
                 {}, 0)
       ELSE Done(s1, c, "returned", <<>>, {}, {}, 0)

\* Mutant of setAutoCollectHeartbeat: the value is kept for start() only.
setAutoCollectHeartbeat_FlagOnly(s, c, value) ==
    Done([s EXCEPT !._isHeartBeat = value], c, "returned", <<>>, {}, {}, 0)

setAutoCollectHeartbeat(s, c, value) ==
    LET s1 == [s EXCEPT !._isHeartBeat = value]
    IN IF s._isStarted
       THEN Done([s1 EXCEPT !._heartbeat = Enable(@, value)], c, "returned", <<>>,
                 IF value THEN {"_heartbeat"} ELSE {}, {}, 0)
       ELSE Done(s1, c, "returned", <<>>, {}, {}, 0)

setSendLiveMetrics(s, c, enable) ==
    IF s.defaultClient = 0
    THEN Done(s, c, "returned",
              <<Warn("Live metrics client cannot be setup without the default client")>>,
              {}, {}, 0)
    ELSE IF s.liveMetricsClient.client = 0 /\ enable
    THEN Done([s EXCEPT !.liveMetricsClient = [client |-> s.defaultClient,
                                               enabled |-> FALSE],
                        !._isSendingLiveMetrics = enable],
              [c EXCEPT ![s.defaultClient].quickPulseClient = TRUE],
              "returned", <<>>, {}, {"liveMetricsClient", "_performanceLiveMetrics"}, 0)
    ELSE IF s.liveMetricsClient.client # 0
    THEN Done([s EXCEPT !.liveMetricsClient.enabled = enable,
                        !._isSendingLiveMetrics = enable],
              c, "returned", <<>>,
              IF enable THEN {"liveMetricsClient"} ELSE {}, {}, 0)
    ELSE Done([s EXCEPT !._isSendingLiveMetrics = enable], c, "returned", <<>>,
              {}, {}, 0)

\* bound: whether the name CorrelationIdManager, which the file does not
\* import, is bound where dispose runs; when it is not, the first statement
\* is a ReferenceError.
dispose(s, c, bound) ==
    IF ~bound THEN Done(s, c, "raised", <<>>, {}, {}, 0)
    ELSE Done([s EXCEPT !.defaultClient = 0,
                        !._isStarted = FALSE,
                        !._console = DisposeCollector(@),
                        !._exceptions = DisposeCollector(@),
                        !._performance = DisposeCollector(@),
                        !._heartbeat = DisposeCollector(@),
                        !._nativePerformance = DisposeCollector(@),
                        !._isSendingLiveMetrics =
                            IF s.liveMetricsClient.client # 0 THEN FALSE ELSE @,
                        !.liveMetricsClient = NoLiveMetrics],
              c, "returned", <<>>, {}, {}, 0)

(***************************************************************************)
(* The calls a program makes on the module, in any order.                  *)
(***************************************************************************)
\* The objects the setup variables hold, by identity
Objects(s) ==
    [defaultClient |-> s.defaultClient, _console |-> s._console.client,
     _exceptions |-> s._exceptions.client, _performance |-> s._performance.client,
     _heartbeat |-> s._heartbeat.client]

InitSdk ==
    /\ sdk = LoadedSdk
    /\ clients = <<>>
    /\ lastCall = [op |-> "load", outcome |-> "returned", log |-> <<>>,
                   enabledTrue |-> {}, created |-> {}, channelCalls |-> 0,
                   hadClient |-> FALSE, changed |-> FALSE]
    /\ history = [setups |-> 0, first |-> Objects(LoadedSdk),
                  given |-> [console |-> TRUE, exceptions |-> TRUE,
                             performance |-> TRUE, heartbeat |-> FALSE],
                  started |-> FALSE, liveGiven |-> FALSE, disposedLast |-> FALSE,
                  disposed |-> 0]
    /\ IdleStack /\ IdleSan /\ IdleTags /\ IdleEnv /\ IdleHdr /\ IdleUtil

\* What is kept of the calls made: the setup calls since the last dispose
\* call and the objects the first of them left; the value last given to each
\* setter; whether start() has run with a default client with no dispose
\* call since; whether the last setSendLiveMetrics call made with a default
\* client, since the last dispose that returned, passed true; whether the
\* last dispose call returned; and the default client the last dispose that
\* returned found.
Remember(h, op, value, r) ==
    [setups |-> IF op = "dispose" THEN 0
                ELSE IF op = "setup" THEN (IF h.setups = 0 THEN 1 ELSE 2)
                ELSE h.setups,
     first |-> IF op = "setup" /\ h.setups = 0 THEN Objects(r.sdk) ELSE h.first,
     given |-> CASE op = "setAutoCollectConsole" -> [h.given EXCEPT !.console = value]
                 [] op = "setAutoCollectExceptions" -> [h.given EXCEPT !.exceptions = value]
                 [] op = "setAutoCollectPerformance" -> [h.given EXCEPT !.performance = value]
                 [] op = "setAutoCollectHeartbeat" -> [h.given EXCEPT !.heartbeat = value]
                 [] OTHER -> h.given,
     started |-> IF op = "dispose" THEN FALSE
                 ELSE IF op = "start" /\ sdk.defaultClient # 0 /\ r.outcome = "returned"
                 THEN TRUE
                 ELSE h.started,
     liveGiven |-> IF op = "dispose" /\ r.outcome = "returned" THEN FALSE
                   ELSE IF op = "setSendLiveMetrics" /\ sdk.defaultClient # 0 THEN value
                   ELSE h.liveGiven,
     disposedLast |-> IF op = "dispose" THEN r.outcome = "returned" ELSE h.disposedLast,
     disposed |-> IF op = "dispose" /\ r.outcome = "returned" THEN sdk.defaultClient
                  ELSE h.disposed]

\* The call op, given value, which did r, has been made.
Called(op, value, r) ==
    /\ sdk' = r.sdk
    /\ clients' = r.clients
    /\ lastCall' = [op |-> op, outcome |-> r.outcome, log |-> r.log,
                    enabledTrue |-> r.enabledTrue, created |-> r.created,
                    channelCalls |-> r.channelCalls,
                    hadClient |-> sdk.defaultClient # 0,
                    changed |-> r.sdk # sdk \/ r.clients # clients]
    /\ history' = Remember(history, op, value, r)
    /\ UNCHANGED <<stackVars, sanVars, tagVars, envVars, hdrVars, utilVars>>

\* A setup call that creates a client is made while clients are left to create.
CallSetup ==
    /\ HasNoClient(sdk) => Len(clients) < MaxClients
    /\ Called("setup", FALSE, setup(sdk, clients))

CallStart == Called("start", FALSE, start(sdk, clients))

CallDispose == \E bound \in BOOLEAN : Called("dispose", FALSE, dispose(sdk, clients, bound))

\* collectConsoleLog is left to its default, false.
CallSetAutoCollectConsole ==
    \E value \in BOOLEAN :
        Called("setAutoCollectConsole", value,
               setAutoCollectConsole(sdk, clients, value, FALSE))

CallSetAutoCollectExceptions ==
    \E value \in BOOLEAN :
        Called("setAutoCollectExceptions", value,
               setAutoCollectExceptions(sdk, clients, value))

CallSetAutoCollectPerformance ==
    \E value \in BOOLEAN, collectExtendedMetrics \in BOOLEAN :
        Called("setAutoCollectPerformance", value,
               setAutoCollectPerformance(sdk, clients, value, collectExtendedMetrics))

CallSetAutoCollectHeartbeat ==
    \E value \in BOOLEAN :
        Called("setAutoCollectHeartbeat", value,
               setAutoCollectHeartbeat(sdk, clients, value))

CallSetSendLiveMetrics ==
    \E enable \in BOOLEAN :
        Called("setSendLiveMetrics", enable,
               setSendLiveMetrics(sdk, clients, enable))

NextSdk ==
    \/ CallSetup
    \/ CallStart
    \/ CallDispose
    \/ CallSetAutoCollectConsole
    \/ CallSetAutoCollectExceptions
    \/ CallSetAutoCollectPerformance
    \/ CallSetAutoCollectHeartbeat
    \/ CallSetSendLiveMetrics

SpecSdk == InitSdk /\ [][NextSdk]_vars

(* C16: a collector has enable(true) called on it only while the SDK is    *)
(* started: in start(), or after a start() with no dispose() since.        *)
C16_EnabledOnlyWhenStarted == lastCall.enabledTrue # {} => sdk._isStarted

(* C19: after setup calls with no dispose call in between, defaultClient   *)
(* and the console, exceptions, performance and heartbeat collectors are   *)
(* the objects the first of them left; a later one creates nothing and     *)
(* only makes the one call that re-applies the disk-retry settings.        *)
C19_SetupIdempotent ==
    history.setups >= 1 =>
        /\ sdk.defaultClient = history.first.defaultClient
        /\ sdk._console.client = history.first._console
        /\ sdk._exceptions.client = history.first._exceptions
        /\ sdk._performance.client = history.first._performance
        /\ sdk._heartbeat.client = history.first._heartbeat
        /\ (history.setups = 2 /\ lastCall.op = "setup") =>
              /\ lastCall.outcome = "returned"
              /\ lastCall.created = {}
              /\ lastCall.enabledTrue = {}
              /\ lastCall.channelCalls = 1
              /\ ~lastCall.changed

C19_Witness ==
    /\ history.setups = 2
    /\ lastCall.op = "setup"
    /\ lastCall.created = {}
    /\ sdk._isStarted
    /\ sdk.defaultClient = 2
    /\ sdk._console = [client |-> 2, enabled |-> TRUE, disposed |-> FALSE]

(* C20: start() with no default client does not raise and changes nothing: *)
(* it logs the warning, leaves the SDK not started and enables nothing.    *)
C20_StartWithoutClient ==
    (lastCall.op = "start" /\ ~lastCall.hadClient) =>
        /\ lastCall.outcome = "returned"
        /\ lastCall.log =
             <<[level |-> "warn", message |-> "Start cannot be called before setup"]>>
        /\ ~lastCall.changed
        /\ ~sdk._isStarted
        /\ lastCall.enabledTrue = {}

C22_LiveMetricsEnabled ==
    (history.started /\ history.liveGiven) =>
        /\ sdk.liveMetricsClient.client # 0
        /\ sdk.liveMetricsClient.enabled

(* C23: after dispose() followed by setup() and start() the SDK is         *)
(* started, every enabled autocollector is bound to the new default client *)
(* and not to the disposed one, the new client's span exporter is set up   *)
(* and no live-metrics client from before the dispose remains.             *)
C23_Reinitialized ==
    (history.disposedLast /\ history.setups >= 1 /\ lastCall.op = "start") =>
        /\ lastCall.outcome = "returned"
        /\ sdk._isStarted
        /\ sdk.defaultClient # 0
        /\ sdk.defaultClient # history.disposed
        /\ \A n \in {"_console", "_exceptions", "_performance", "_heartbeat",
                     "_nativePerformance"} :
              sdk[n].enabled =>
                  sdk[n].client = sdk.defaultClient /\ ~sdk[n].disposed
        /\ clients[sdk.defaultClient].spanExporter
        /\ sdk.liveMetricsClient.client \in {0, sdk.defaultClient}

====
